---- MODULE Spec2Model ----
(***************************************************************************)
(* State resolution v2 (synapse/state/v2.py): the separator, the           *)
(* lexicographical topological sort and the resolution pipeline of          *)
(* resolve_events_with_store, as state machines.                            *)
(*                                                                          *)
(*   SpecSep   _seperate on bounded lists of StateMaps                      *)
(*   SpecTopo  lexicographical_topological_sort on bounded graphs           *)
(*   Spec      resolve_events_with_store on a small room                    *)
(***************************************************************************)
EXTENDS Integers, Sequences, FiniteSets, Bags, TLC

VARIABLES
    pc,                 \* where the run is
    state_sets,         \* argument: list of StateMaps (StateKey -> event id)
    unconflicted_state, \* _seperate: StateKey -> event id
    conflicted_state,   \* _seperate: StateKey -> set of event ids
    graph,              \* node -> set of out-edges (consumed by the sort)
    graph0,             \* the graph as handed to the sort
    sort_key,           \* the sort's key function, node -> tuple of integers
    reverse_graph,      \* the sort's reverse adjacency map
    zero_outdegree,     \* the sort's heap: a bag of <<key(node), node>>
    sorted_events,      \* the nodes the sort has yielded, in order
    store,              \* state_res_store.get_events: event id -> event
    store_diff,         \* state_res_store.get_auth_chain_difference's answer
    crash,              \* events on which event_auth.check fails otherwise
    refused,            \* events event_auth.check refuses with an AuthError
    walk,               \* the locals of a loop run on its own, step by step
    event_map0,         \* the caller's event_map (event id -> event)
    event_map,          \* event_map, the memo the run fills
    full_conflicted_set, \* the conflicted candidates and the auth difference
    event_to_pl,        \* node -> power level of its sender
    candidates,         \* event_ids of the running _iterative_auth_checks
    idx,                \* its position in candidates
    resolved_state,     \* its running state
    auth_log,           \* what each of its iterations saw and did
    result              \* the StateMap returned

vars == <<pc, state_sets, unconflicted_state, conflicted_state,
          graph, graph0, sort_key, reverse_graph, zero_outdegree,
          sorted_events, store, store_diff, crash,
          refused, walk, event_map0, event_map,
          full_conflicted_set, event_to_pl, candidates, idx,
          resolved_state, auth_log, result>>

----------------------------------------------------------------------------
(* Bounds of the model *)

MaxSets == 2        \* most StateMaps in state_sets
MaxSepId == 2       \* event ids 1..MaxSepId in the separator's inputs
MaxNodes == 3       \* nodes 1..MaxNodes in the sort's input graphs
MaxEdges == 3       \* most edges in the sort's input graphs
MaxDiff == 2        \* most events in the store's auth chain difference
MaxAuth == 3        \* most auth_event_ids of the event whose level is asked
MaxMainline == 3    \* longest mainline a walk run on its own may build

----------------------------------------------------------------------------
(* Python values *)

\* dict.get's answer for a key the dict does not hold
None == 0

EmptyMap == [x \in {} |-> None]

Get(map, key) == IF key \in DOMAIN map THEN map[key] ELSE None

Put(map, key, value) ==
    [k \in DOMAIN map \cup {key} |-> IF k = key THEN value ELSE map[k]]

Values(map) == {map[k] : k \in DOMAIN map}

\* a local variable: value is computed once, then Body(value)
Local(value, Body(_)) == CHOOSE out \in {Body(x) : x \in {value}} : TRUE

\* Python's order on tuples of integers
TupleLess(a, b) ==
    \E i \in 1..Len(b) :
        /\ \A j \in 1..(i - 1) : j <= Len(a) /\ a[j] = b[j]
        /\ \/ i = Len(a) + 1
           \/ i <= Len(a) /\ a[i] < b[i]

----------------------------------------------------------------------------
(* EventTypes *)

Create == "m.room.create"
PowerLevels == "m.room.power_levels"
JoinRules == "m.room.join_rules"
Member == "m.room.member"
Topic == "m.room.topic"

----------------------------------------------------------------------------
(* _seperate *)

\* the keys the loop visits: every key of every state set
SeperateKeys(sets) == UNION {DOMAIN sets[i] : i \in 1..Len(sets)}

\* (mutant) the null of an absent key is left in the candidate set
SeperateKeyKeepsNone(key, sets, unconflicted, conflicted) ==
    LET event_ids == {Get(sets[i], key) : i \in 1..Len(sets)}
    IN  IF Cardinality(event_ids) = 1
        THEN [unconflicted |-> Put(unconflicted, key,
                                   CHOOSE e \in event_ids : TRUE),
              conflicted |-> conflicted]
        ELSE [unconflicted |-> unconflicted,
              conflicted |-> Put(conflicted, key, event_ids)]

\* one iteration of the loop over the keys
SeperateKey(key, sets, unconflicted, conflicted) ==
    LET event_ids == {Get(sets[i], key) : i \in 1..Len(sets)}
    IN  IF Cardinality(event_ids) = 1
        THEN [unconflicted |-> Put(unconflicted, key,
                                   CHOOSE e \in event_ids : TRUE),
              conflicted |-> conflicted]
        ELSE [unconflicted |-> unconflicted,
              conflicted |-> Put(conflicted, key, event_ids \ {None})]

\* the loop over the keys, from position i of the order the key set is
\* iterated in
RECURSIVE SeperateLoop(_, _, _, _, _)
SeperateLoop(order, i, sets, unconflicted, conflicted) ==
    IF i > Len(order)
    THEN [unconflicted |-> unconflicted, conflicted |-> conflicted]
    ELSE LET r == SeperateKey(order[i], sets, unconflicted, conflicted)
         IN  SeperateLoop(order, i + 1, sets, r.unconflicted, r.conflicted)

----------------------------------------------------------------------------
(* lexicographical_topological_sort *)

\* heap entries (key(node), node) in Python's tuple order
EntryLess(x, y) ==
    \/ TupleLess(x[1], y[1])
    \/ x[1] = y[1] /\ x[2] < y[2]

\* (mutant) heappop returns any entry, as if the list were no heap
HeapAny(heap) == BagToSet(heap)

\* what heappop may return: a smallest entry of the heap
HeapMin(heap) ==
    {x \in BagToSet(heap) : \A y \in BagToSet(heap) : ~EntryLess(y, x)}

\* the set-up loop and heapify
TopoSetup(g, key) ==
    [reverse_graph |->
        [n \in DOMAIN g \cup UNION {g[m] : m \in DOMAIN g} |->
            {m \in DOMAIN g : n \in g[m]}],
     zero_outdegree |->
        SetToBag({<<key[n], n>> : n \in {m \in DOMAIN g : g[m] = {}}})]

\* (mutant) every out-edge of a parent is dropped, not only the popped node
DiscardedAll(g, rev, node) ==
    [p \in DOMAIN g |-> IF p \in rev[node] THEN {} ELSE g[p]]

\* the out-edge sets after node has been taken off its parents
Discarded(g, rev, node) ==
    [p \in DOMAIN g |-> IF p \in rev[node] THEN g[p] \ {node} ELSE g[p]]

\* (mutant) a parent is pushed on every discard
PushParentAlways(out) == TRUE

\* a parent is pushed when its out-edge set has become empty
PushParent(out) == out = {}

\* the parents the loop body pushes after popping node
Pushed(g, rev, node) ==
    {p \in rev[node] : PushParent(Discarded(g, rev, node)[p])}

\* the heap after node is popped as entry x and its freed parents are pushed
HeapAfter(heap, x, g, rev, key) ==
    (heap (-) SetToBag({x}))
    (+) SetToBag({<<key[p], p>> : p \in Pushed(g, rev, x[2])})

\* (mutant) the loop never finds the heap empty
HeapExhaustedNever(heap) == FALSE

\* "while zero_outdegree:" is over
HeapExhausted(heap) == heap = EmptyBag

\* the heap loop run to its end: the lists the generator can yield
RECURSIVE HeapLoop(_, _, _, _, _)
HeapLoop(g, rev, heap, key, yielded) ==
    IF HeapExhausted(heap) THEN {yielded}
    ELSE UNION {Local(<<Discarded(g, rev, x[2]),
                          HeapAfter(heap, x, g, rev, key)>>, LAMBDA next :
                    HeapLoop(next[1], rev, next[2], key,
                             Append(yielded, x[2]))) : x \in HeapMin(heap)}

\* list(lexicographical_topological_sort(graph, key))
SortedLists(g, key) ==
    Local(TopoSetup(g, key), LAMBDA s :
        HeapLoop(g, s.reverse_graph, s.zero_outdegree, key, <<>>))

----------------------------------------------------------------------------
(* Events *)

\* room_id, the room the resolution works in, and another room
RoomId == "!room"
OtherRoom == "!other"

UserA == "@a"
UserB == "@b"

EventKey(ev) == <<ev.type, ev.state_key>>

PowerLevelsKey == <<PowerLevels, "">>
CreateKey == <<Create, "">>

\* an event; rejected stands for rejected_reason is not None, and an absent
\* field of content is the empty set
Event(id, type, state_key, sender, ts, auth, content) ==
    [event_id |-> id, room_id |-> RoomId, type |-> type,
     state_key |-> state_key, sender |-> sender, origin_server_ts |-> ts,
     auth_event_ids |-> auth, rejected |-> FALSE, membership |-> "",
     content |-> content]

NoContent == [users |-> EmptyMap, users_default |-> {}, creator |-> {}]

----------------------------------------------------------------------------
(* _get_event *)

\* (mutant) the loader returns an event of any room
GetEventAnyRoom(em, room, event_id, allow_none) ==
    Local(IF event_id \in DOMAIN em \/ event_id \notin DOMAIN store
          THEN em
          ELSE Put(em, event_id, store[event_id]),
          LAMBDA fetched :
        IF event_id \notin DOMAIN fetched
        THEN [found |-> FALSE, em |-> fetched, err |-> ~allow_none]
        ELSE [found |-> TRUE, em |-> fetched, err |-> FALSE])

\* (mutant) the store is asked and its answer merged whatever the memo holds
GetEventRefetch(em, room, event_id, allow_none) ==
    Local(IF event_id \notin DOMAIN store
          THEN em
          ELSE Put(em, event_id, store[event_id]),
          LAMBDA fetched :
        IF event_id \notin DOMAIN fetched
        THEN [found |-> FALSE, em |-> fetched, err |-> ~allow_none,
              asked |-> TRUE]
        ELSE IF fetched[event_id].room_id # room
        THEN [found |-> FALSE, em |-> fetched, err |-> TRUE, asked |-> TRUE]
        ELSE [found |-> TRUE, em |-> fetched, err |-> FALSE, asked |-> TRUE])

\* the memo after the fetch of a missing id, whether the event is there,
\* whether the call raised, and whether it asked the store
GetEvent(em, room, event_id, allow_none) ==
    Local(IF event_id \in DOMAIN em \/ event_id \notin DOMAIN store
          THEN em
          ELSE Put(em, event_id, store[event_id]),
          LAMBDA fetched :
        IF event_id \notin DOMAIN fetched
        THEN [found |-> FALSE, em |-> fetched, err |-> ~allow_none,
              asked |-> event_id \notin DOMAIN em]
        ELSE IF fetched[event_id].room_id # room
        THEN [found |-> FALSE, em |-> fetched, err |-> TRUE,
              asked |-> event_id \notin DOMAIN em]
        ELSE [found |-> TRUE, em |-> fetched, err |-> FALSE,
              asked |-> event_id \notin DOMAIN em])

\* the loop "for aid in auth_event_ids: load aid, stop at the first event of
\* the given StateKey", from position i
RECURSIVE FirstAuthEvent(_, _, _, _, _)
FirstAuthEvent(em, room, aids, i, key) ==
    IF i > Len(aids)
    THEN [found |-> FALSE, id |-> None, em |-> em, err |-> FALSE]
    ELSE Local(GetEvent(em, room, aids[i], TRUE), LAMBDA r :
             IF r.err
             THEN [found |-> FALSE, id |-> None, em |-> r.em, err |-> TRUE]
             ELSE IF r.found /\ EventKey(r.em[aids[i]]) = key
             THEN [found |-> TRUE, id |-> aids[i], em |-> r.em,
                   err |-> FALSE]
             ELSE FirstAuthEvent(r.em, room, aids, i + 1, key))

----------------------------------------------------------------------------
(* _get_power_level_for_sender *)

\* (mutant) users[sender], else 0
UserLevelNoDefault(content, sender) ==
    IF sender \in DOMAIN content.users THEN content.users[sender] ELSE 0

\* users[sender], else users_default, else 0
UserLevel(content, sender) ==
    IF sender \in DOMAIN content.users THEN content.users[sender]
    ELSE IF content.users_default # {}
    THEN CHOOSE level \in content.users_default : TRUE
    ELSE 0

GetPowerLevelForSender(em, event_id) ==
    Local(GetEvent(em, RoomId, event_id, FALSE), LAMBDA r :
        IF r.err THEN [level |-> 0, em |-> r.em, err |-> TRUE]
        ELSE
        LET event == r.em[event_id]
        IN  Local(FirstAuthEvent(r.em, RoomId, event.auth_event_ids, 1,
                                 PowerLevelsKey), LAMBDA pl :
            IF pl.err THEN [level |-> 0, em |-> pl.em, err |-> TRUE]
            ELSE IF pl.found
            THEN [level |-> UserLevel(pl.em[pl.id].content, event.sender),
                  em |-> pl.em, err |-> FALSE]
            ELSE
            Local(FirstAuthEvent(pl.em, RoomId, event.auth_event_ids, 1,
                                 CreateKey), LAMBDA cr :
                IF cr.err THEN [level |-> 0, em |-> cr.em, err |-> TRUE]
                ELSE [level |->
                          IF cr.found /\
                             cr.em[cr.id].content.creator = {event.sender}
                          THEN 100 ELSE 0,
                      em |-> cr.em, err |-> FALSE])))

----------------------------------------------------------------------------
(* _is_power_event *)

IsPowerEvent(event) ==
    \/ EventKey(event) \in {PowerLevelsKey, <<JoinRules, "">>, CreateKey}
    \/ /\ event.type = Member
       /\ event.membership \in {"leave", "ban"}
       /\ event.sender # event.state_key

----------------------------------------------------------------------------
(* _add_event_and_auth_chain_to_graph *)

\* (mutant) every auth event is followed, whether in auth_diff or not
InAuthDiffAlways(aid, auth_diff) == TRUE

\* an auth event is followed and made an edge target when it is in auth_diff
InAuthDiff(aid, auth_diff) == aid \in auth_diff

\* one iteration of the loop "while state", state being the stack of event
\* ids to visit
GraphWalkStep(g, stack, em, auth_diff) ==
    LET eid == stack[Len(stack)]
        rest == SubSeq(stack, 1, Len(stack) - 1)
    IN  Local(IF eid \in DOMAIN g THEN g ELSE Put(g, eid, {}), LAMBDA g1 :
        Local(GetEvent(em, RoomId, eid, FALSE), LAMBDA r :
        IF r.err
        THEN [graph |-> g1, stack |-> rest, em |-> r.em, err |-> TRUE]
        ELSE
        LET aids == r.em[eid].auth_event_ids
            Followed(aid) == InAuthDiff(aid, auth_diff)
            Unseen(aid) == Followed(aid) /\ aid \notin DOMAIN g1
            edges == {aids[i] : i \in {j \in 1..Len(aids) : Followed(aids[j])}}
        IN  [graph |-> Put(g1, eid, g1[eid] \cup edges),
             stack |-> rest \o SelectSeq(aids, Unseen),
             em |-> r.em, err |-> FALSE]))

\* the loop "while state"
RECURSIVE GraphWalk(_, _, _, _)
GraphWalk(g, stack, em, auth_diff) ==
    IF stack = <<>> THEN [graph |-> g, em |-> em, err |-> FALSE]
    ELSE Local(GraphWalkStep(g, stack, em, auth_diff), LAMBDA next :
             IF next.err
             THEN [graph |-> next.graph, em |-> next.em, err |-> TRUE]
             ELSE GraphWalk(next.graph, next.stack, next.em, auth_diff))

AddEventAndAuthChainToGraph(g, event_id, em, auth_diff) ==
    GraphWalk(g, <<event_id>>, em, auth_diff)

\* _reverse_topological_power_sort's first loop, from position i of the order
\* the power events come in
RECURSIVE GraphLoop(_, _, _, _, _)
GraphLoop(order, i, g, em, auth_diff) ==
    IF i > Len(order) THEN [graph |-> g, em |-> em, err |-> FALSE]
    ELSE Local(AddEventAndAuthChainToGraph(g, order[i], em, auth_diff),
               LAMBDA r :
             IF r.err THEN r
             ELSE GraphLoop(order, i + 1, r.graph, r.em, auth_diff))

\* its second loop, from position i of the order the graph's nodes come in
RECURSIVE PowerLevelLoop(_, _, _, _)
PowerLevelLoop(order, i, em, pls) ==
    IF i > Len(order) THEN [event_to_pl |-> pls, em |-> em, err |-> FALSE]
    ELSE Local(GetPowerLevelForSender(em, order[i]), LAMBDA r :
             IF r.err THEN [event_to_pl |-> pls, em |-> r.em, err |-> TRUE]
             ELSE Local(Put(pls, order[i], r.level), LAMBDA pls1 :
                      PowerLevelLoop(order, i + 1, r.em, pls1)))

GetPowerOrderAscending(em, pls, event_id) ==
    <<pls[event_id], em[event_id].origin_server_ts, event_id>>

\* _get_power_order, the key of the power sort
GetPowerOrder(em, pls, event_id) ==
    <<0 - pls[event_id], em[event_id].origin_server_ts, event_id>>

----------------------------------------------------------------------------
(* The room version: event_auth.auth_types_for_event and event_auth.check *)

\* the StateKeys an event's auth context must hold
AuthTypesForEvent(event) ==
    IF event.type = Create THEN <<>>
    ELSE <<PowerLevelsKey, <<Member, event.sender>>, CreateKey>>
         \o (IF event.type = Member
             THEN (IF event.membership \in {"join", "invite"}
                   THEN <<<<JoinRules, "">>>> ELSE <<>>)
                  \o <<<<Member, event.state_key>>>>
             ELSE <<>>)

\* the sender's level in an auth context: from its PowerLevels event, else
\* 100 for the room's creator and 0 for anybody else
SenderLevel(event, auth_events) ==
    IF PowerLevelsKey \in DOMAIN auth_events
    THEN UserLevel(auth_events[PowerLevelsKey].content, event.sender)
    ELSE IF auth_events[CreateKey].content.creator = {event.sender}
    THEN 100 ELSE 0

\* the authorization predicate: "ok" (returns), "auth_error" (AuthError) or
\* "error" (any other exception). A Create event is allowed; any other event
\* needs a Create event in its context and a sender of level 50 or more,
\* unless the room version refuses the event for a reason of its own.
AuthCheck(event, auth_events) ==
    IF event.event_id \in crash THEN "error"
    ELSE IF event.event_id \in refused THEN "auth_error"
    ELSE IF event.type = Create THEN "ok"
    ELSE IF CreateKey \notin DOMAIN auth_events THEN "auth_error"
    ELSE IF SenderLevel(event, auth_events) >= 50 THEN "ok"
    ELSE "auth_error"

----------------------------------------------------------------------------
(* _iterative_auth_checks *)

\* (mutant) the first loop with allow_none left out
RECURSIVE OwnAuthEventsStrict(_, _, _, _)
OwnAuthEventsStrict(em, aids, i, auth_events) ==
    IF i > Len(aids)
    THEN [auth_events |-> auth_events, em |-> em, err |-> FALSE]
    ELSE Local(GetEvent(em, RoomId, aids[i], FALSE), LAMBDA r :
             IF r.err
             THEN [auth_events |-> auth_events, em |-> r.em, err |-> TRUE]
             ELSE Local(IF ~r.em[aids[i]].rejected
                        THEN Put(auth_events, EventKey(r.em[aids[i]]),
                                 aids[i])
                        ELSE auth_events, LAMBDA auth_events1 :
                      OwnAuthEventsStrict(r.em, aids, i + 1, auth_events1)))

\* the first loop of an iteration: the candidate's own auth events, as a map
\* StateKey -> event id, from position i of its auth_event_ids
RECURSIVE OwnAuthEvents(_, _, _, _)
OwnAuthEvents(em, aids, i, auth_events) ==
    IF i > Len(aids)
    THEN [auth_events |-> auth_events, em |-> em, err |-> FALSE]
    ELSE Local(GetEvent(em, RoomId, aids[i], TRUE), LAMBDA r :
             IF r.err
             THEN [auth_events |-> auth_events, em |-> r.em, err |-> TRUE]
             ELSE Local(IF r.found /\ ~r.em[aids[i]].rejected
                        THEN Put(auth_events, EventKey(r.em[aids[i]]),
                                 aids[i])
                        ELSE auth_events, LAMBDA auth_events1 :
                      OwnAuthEvents(r.em, aids, i + 1, auth_events1)))

\* (mutant) the second loop without the test of rejected_reason
RECURSIVE ResolvedAuthEventsRejectedToo(_, _, _, _, _)
ResolvedAuthEventsRejectedToo(em, keys, i, resolved, auth_events) ==
    IF i > Len(keys)
    THEN [auth_events |-> auth_events, em |-> em, err |-> FALSE]
    ELSE IF keys[i] \notin DOMAIN resolved
    THEN ResolvedAuthEventsRejectedToo(em, keys, i + 1, resolved, auth_events)
    ELSE LET ev_id == resolved[keys[i]]
         IN  Local(GetEvent(em, RoomId, ev_id, FALSE), LAMBDA r :
             IF r.err
             THEN [auth_events |-> auth_events, em |-> r.em, err |-> TRUE]
             ELSE Local(Put(auth_events, keys[i], ev_id),
                        LAMBDA auth_events1 :
                      ResolvedAuthEventsRejectedToo(r.em, keys, i + 1,
                                                    resolved, auth_events1)))

\* the second loop: the entries of the running state for the required keys,
\* from position i of the keys
RECURSIVE ResolvedAuthEvents(_, _, _, _, _)
ResolvedAuthEvents(em, keys, i, resolved, auth_events) ==
    IF i > Len(keys)
    THEN [auth_events |-> auth_events, em |-> em, err |-> FALSE]
    ELSE IF keys[i] \notin DOMAIN resolved
    THEN ResolvedAuthEvents(em, keys, i + 1, resolved, auth_events)
    ELSE LET ev_id == resolved[keys[i]]
         IN  Local(GetEvent(em, RoomId, ev_id, FALSE), LAMBDA r :
             IF r.err
             THEN [auth_events |-> auth_events, em |-> r.em, err |-> TRUE]
             ELSE Local(IF ~r.em[ev_id].rejected
                        THEN Put(auth_events, keys[i], ev_id)
                        ELSE auth_events, LAMBDA auth_events1 :
                      ResolvedAuthEvents(r.em, keys, i + 1, resolved,
                                         auth_events1)))

\* the auth context of a candidate against a running state
AuthEventsFor(em, resolved, event_id) ==
    LET event == em[event_id]
    IN  Local(OwnAuthEvents(em, event.auth_event_ids, 1, EmptyMap),
              LAMBDA own :
            IF own.err THEN own
            ELSE ResolvedAuthEvents(own.em, AuthTypesForEvent(event), 1,
                                    resolved, own.auth_events))

\* (mutant) an accepted candidate is written only over an empty key
AppliedFirstOnly(resolved, event, outcome) ==
    IF outcome = "ok" /\ EventKey(event) \notin DOMAIN resolved
    THEN Put(resolved, EventKey(event), event.event_id)
    ELSE resolved

\* (mutant) the candidate is written whatever the check's outcome
AppliedAlways(resolved, event, outcome) ==
    Put(resolved, EventKey(event), event.event_id)

\* the running state after a candidate whose check ended in outcome
Applied(resolved, event, outcome) ==
    IF outcome = "ok" THEN Put(resolved, EventKey(event), event.event_id)
    ELSE resolved

\* (mutant) an AuthError leaves the loop as any other exception does
PropagatedAuthError(outcome) == outcome # "ok"

\* "except AuthError: pass": the outcomes of the check that leave the loop
Propagated(outcome) == outcome = "error"

\* one iteration of the loop over the candidates
IterativeAuthOne(em, resolved, event_id) ==
    LET event == em[event_id]
    IN  Local(AuthEventsFor(em, resolved, event_id), LAMBDA ctx :
        IF ctx.err
        THEN [resolved |-> resolved, em |-> ctx.em, err |-> TRUE,
              auth_events |-> ctx.auth_events, outcome |-> "error"]
        ELSE
        Local(AuthCheck(event, [k \in DOMAIN ctx.auth_events |->
                                   ctx.em[ctx.auth_events[k]]]),
              LAMBDA outcome :
            [resolved |-> Applied(resolved, event, outcome),
             em |-> ctx.em, err |-> Propagated(outcome),
             auth_events |-> ctx.auth_events, outcome |-> outcome]))

\* the loop over the candidates, from position i of event_ids
RECURSIVE IterativeAuthChecks(_, _, _, _)
IterativeAuthChecks(em, resolved, event_ids, i) ==
    IF i > Len(event_ids)
    THEN [resolved |-> resolved, em |-> em, err |-> FALSE]
    ELSE Local(IterativeAuthOne(em, resolved, event_ids[i]), LAMBDA r :
             IF r.err THEN [resolved |-> r.resolved, em |-> r.em, err |-> TRUE]
             ELSE IterativeAuthChecks(r.em, r.resolved, event_ids, i + 1))

----------------------------------------------------------------------------
(* _mainline_sort *)

\* one iteration of the loop "while pl": pl joins the mainline and its first
\* power levels auth event is the next pl
MainlineStep(em, pl, mainline) ==
    Local(GetEvent(em, RoomId, pl, FALSE), LAMBDA r :
        IF r.err
        THEN [pl |-> pl, mainline |-> mainline, em |-> r.em, err |-> TRUE]
        ELSE
        Local(FirstAuthEvent(r.em, RoomId, r.em[pl].auth_event_ids, 1,
                             PowerLevelsKey), LAMBDA next :
            IF next.err
            THEN [pl |-> pl, mainline |-> mainline, em |-> next.em,
                  err |-> TRUE]
            ELSE [pl |-> IF next.found THEN next.id ELSE None,
                  mainline |-> Append(mainline, pl), em |-> next.em,
                  err |-> FALSE]))

\* the loop "while pl": the mainline from pl on, most recent first
RECURSIVE Mainline(_, _, _)
Mainline(em, pl, mainline) ==
    IF pl = None THEN [mainline |-> mainline, em |-> em, err |-> FALSE]
    ELSE Local(MainlineStep(em, pl, mainline), LAMBDA next :
             IF next.err
             THEN [mainline |-> next.mainline, em |-> next.em, err |-> TRUE]
             ELSE Mainline(next.em, next.pl, next.mainline))

MainlineMapNewestFirst(mainline) ==
    [ev_id \in {mainline[i] : i \in 1..Len(mainline)} |->
        CHOOSE i \in 1..Len(mainline) : mainline[i] = ev_id]

\* mainline_map: event id -> depth, the oldest mainline event at depth 1
MainlineMap(mainline) ==
    [ev_id \in {mainline[i] : i \in 1..Len(mainline)} |->
        Len(mainline) + 1 - (CHOOSE i \in 1..Len(mainline) :
            /\ mainline[i] = ev_id
            /\ \A j \in (i + 1)..Len(mainline) : mainline[j] # ev_id)]

\* one iteration of the loop "while event" of _get_mainline_depth_for_event,
\* event_id standing for the loop's event: the function returns (done), or
\* goes on with the first power levels auth event
MainlineDepthStep(em, room, event_id, mainline_map) ==
    IF event_id \in DOMAIN mainline_map
    THEN [done |-> TRUE, depth |-> mainline_map[event_id],
          event_id |-> event_id, em |-> em, err |-> FALSE]
    ELSE Local(FirstAuthEvent(em, room, em[event_id].auth_event_ids, 1,
                              PowerLevelsKey), LAMBDA next :
             IF next.err
             THEN [done |-> TRUE, depth |-> 0, event_id |-> event_id,
                   em |-> next.em, err |-> TRUE]
             ELSE IF ~next.found
             THEN [done |-> TRUE, depth |-> 0, event_id |-> event_id,
                   em |-> next.em, err |-> FALSE]
             ELSE [done |-> FALSE, depth |-> 0, event_id |-> next.id,
                   em |-> next.em, err |-> FALSE])

\* _get_mainline_depth_for_event
RECURSIVE GetMainlineDepthForEvent(_, _, _, _)
GetMainlineDepthForEvent(em, room, event_id, mainline_map) ==
    Local(MainlineDepthStep(em, room, event_id, mainline_map), LAMBDA next :
        IF next.done
        THEN [depth |-> next.depth, em |-> next.em, err |-> next.err]
        ELSE GetMainlineDepthForEvent(next.em, room, next.event_id,
                                      mainline_map))

\* the loop that fills order_map, from position i of event_ids
RECURSIVE OrderMap(_, _, _, _, _)
OrderMap(em, event_ids, i, mainline_map, order_map) ==
    IF i > Len(event_ids)
    THEN [order_map |-> order_map, em |-> em, err |-> FALSE]
    ELSE LET ev_id == event_ids[i]
         IN  Local(GetMainlineDepthForEvent(em, em[ev_id].room_id, ev_id,
                                            mainline_map), LAMBDA d :
             IF d.err
             THEN [order_map |-> order_map, em |-> d.em, err |-> TRUE]
             ELSE Local(Put(order_map, ev_id,
                            <<d.depth, d.em[ev_id].origin_server_ts, ev_id>>),
                        LAMBDA order_map1 :
                      OrderMap(d.em, event_ids, i + 1, mainline_map,
                               order_map1)))

\* (mutant) the sort key is the mainline depth alone
MainlineBeforeByDepth(order_map, a, b) == order_map[a][1] < order_map[b][1]

\* the order of event_ids.sort: by order_map
MainlineBefore(order_map, a, b) == TupleLess(order_map[a], order_map[b])

\* list.sort, a stable sort: the first i elements of list, sorted
RECURSIVE StableSort(_, _, _)
StableSort(list, i, order_map) ==
    IF i = 0 THEN <<>>
    ELSE Local(StableSort(list, i - 1, order_map), LAMBDA done :
             LET x == list[i]
                 before == {j \in 1..Len(done) :
                               ~MainlineBefore(order_map, x, done[j])}
                 k == Cardinality({j \in 1..Len(done) :
                          \A l \in 1..j : l \in before})
             IN  SubSeq(done, 1, k) \o <<x>>
                     \o SubSeq(done, k + 1, Len(done)))

MainlineSort(em, event_ids, resolved_power_event_id) ==
    IF event_ids = <<>> THEN [list |-> <<>>, em |-> em, err |-> FALSE]
    ELSE
    Local(Mainline(em, resolved_power_event_id, <<>>), LAMBDA m :
        IF m.err THEN [list |-> <<>>, em |-> m.em, err |-> TRUE]
        ELSE
        Local(MainlineMap(m.mainline), LAMBDA mainline_map :
        Local(OrderMap(m.em, event_ids, 1, mainline_map, EmptyMap),
              LAMBDA o :
            IF o.err THEN [list |-> <<>>, em |-> o.em, err |-> TRUE]
            ELSE [list |-> StableSort(event_ids, Len(event_ids),
                                      o.order_map),
                  em |-> o.em, err |-> FALSE])))

----------------------------------------------------------------------------
(* Inputs *)

SepKeys == {<<PowerLevels, "">>, <<Topic, "">>}

SepMaps ==
    UNION {[K -> 1..MaxSepId] : K \in SUBSET SepKeys}

ListsUpTo(S, n) == UNION {[1..k -> S] : k \in 0..n}

Nodes == 1..MaxNodes

KeyValues == {<<0>>, <<1>>}

\* a graph with the given edges: every source node is a key
GraphOf(K, E) == [n \in K |-> {e[2] : e \in {d \in E : d[1] = n}}]

Graphs ==
    {GraphOf(K, E) :
        K \in SUBSET Nodes,
        E \in {F \in SUBSET (Nodes \X Nodes) : Cardinality(F) <= MaxEdges}}

\* the room: its Create event, two PowerLevels events and two Topic events
BaseEvents ==
    <<Event(1, Create, "", UserA, 1, <<>>,
            [NoContent EXCEPT !.creator = {UserA}]),
      Event(2, PowerLevels, "", UserA, 2, <<1>>,
            [NoContent EXCEPT !.users = (UserA :> 100) @@ (UserB :> 50)]),
      Event(3, PowerLevels, "", UserB, 3, <<1, 2>>,
            [NoContent EXCEPT !.users = (UserA :> 0) @@ (UserB :> 50)]),
      Event(4, Topic, "", UserA, 4, <<1, 2>>, NoContent),
      Event(5, Topic, "", UserB, 5, <<1, 3>>, NoContent)>>

EventIds == DOMAIN BaseEvents

\* the StateKeys the state sets hold
ResKeys == {PowerLevelsKey, <<Topic, "">>}

\* the StateMaps of the room: each key names an event of that key
ResMaps ==
    {m \in UNION {[K -> EventIds] : K \in SUBSET ResKeys} :
        \A k \in DOMAIN m : EventKey(BaseEvents[m[k]]) = k}

\* what may be wrong with one event: it is in another room, it is rejected,
\* the store does not have it, the authorization predicate breaks on it, or
\* the authorization predicate of the room version refuses it
Faults ==
    {<<"none", None>>}
        \cup ({"room", "rejected", "missing", "crash", "refused"} \X EventIds)

EventsUnder(fault) ==
    [e \in EventIds |->
        IF fault = <<"room", e>>
        THEN [BaseEvents[e] EXCEPT !.room_id = OtherRoom]
        ELSE IF fault = <<"rejected", e>>
        THEN [BaseEvents[e] EXCEPT !.rejected = TRUE]
        ELSE BaseEvents[e]]

Restrict(map, S) == [k \in DOMAIN map \cap S |-> map[k]]

\* the auth chain of a set of event ids, as far as the store knows the events
RECURSIVE AuthChain(_)
AuthChain(S) ==
    LET more == S \cup UNION {{store[e].auth_event_ids[i] :
                                  i \in 1..Len(store[e].auth_event_ids)} :
                              e \in S \cap DOMAIN store}
    IN  IF more = S THEN S ELSE AuthChain(more)

\* what the store may answer for the auth chain difference of the state
\* sets: nothing when there is no second set or all sets agree, else some
\* events of the sets' auth chains
Diffs(sets) ==
    IF \A i \in 1..Len(sets) : sets[i] = sets[1] THEN {{}}
    ELSE {D \in SUBSET AuthChain(UNION {Values(sets[i]) :
                                           i \in 1..Len(sets)}) :
             Cardinality(D) <= MaxDiff}

\* the orders an unordered collection can be iterated in
Orderings(S) ==
    {f \in [1..Cardinality(S) -> S] :
        \A i, j \in DOMAIN f : f[i] = f[j] => i = j}

----------------------------------------------------------------------------
(* Actions *)

\* no loop is run on its own
NoWalk == [loop |-> "none"]

SepIdle ==
    /\ state_sets = <<>>
    /\ unconflicted_state = EmptyMap
    /\ conflicted_state = EmptyMap

TopoIdle ==
    /\ graph = EmptyMap
    /\ graph0 = EmptyMap
    /\ sort_key = EmptyMap
    /\ reverse_graph = EmptyMap
    /\ zero_outdegree = EmptyBag
    /\ sorted_events = <<>>

RunIdle ==
    /\ full_conflicted_set = {}
    /\ event_to_pl = EmptyMap
    /\ candidates = <<>>
    /\ idx = 1
    /\ resolved_state = EmptyMap
    /\ auth_log = <<>>
    /\ result = EmptyMap

ResIdle ==
    /\ store = EmptyMap
    /\ store_diff = {}
    /\ crash = {}
    /\ refused = {}
    /\ walk = NoWalk
    /\ event_map0 = EmptyMap
    /\ event_map = EmptyMap
    /\ RunIdle

sepVars == <<state_sets, unconflicted_state, conflicted_state>>
topoVars == <<graph, graph0, sort_key, reverse_graph, zero_outdegree,
              sorted_events>>
inputVars == <<state_sets, store, store_diff, crash, refused, walk, event_map0>>
resVars == <<store, store_diff, crash, refused, walk, event_map0, event_map,
             full_conflicted_set, event_to_pl, candidates, idx,
             resolved_state, auth_log, result>>

\* _seperate(state_sets); the key set is iterated in any order
Seperate ==
    /\ pc = "start"
    /\ \E order \in Orderings(SeperateKeys(state_sets)) :
        LET r == SeperateLoop(order, 1, state_sets, EmptyMap, EmptyMap)
        IN  /\ unconflicted_state' = r.unconflicted
            /\ conflicted_state' = r.conflicted
    /\ pc' = "seperated"
    /\ UNCHANGED <<state_sets, topoVars, resVars>>

\* the sort's set-up: reverse graph, zero-outdegree list, heapify
TopoStart ==
    /\ pc = "topo_start"
    /\ LET s == TopoSetup(graph, sort_key)
       IN  /\ reverse_graph' = s.reverse_graph
           /\ zero_outdegree' = s.zero_outdegree
    /\ pc' = "topo_loop"
    /\ UNCHANGED <<graph, graph0, sort_key, sorted_events>>
    /\ UNCHANGED <<sepVars, resVars>>

\* one iteration of the sort's heap loop: pop, update the parents, yield
TopoPop ==
    /\ pc = "topo_loop"
    /\ \E x \in HeapMin(zero_outdegree) :
        /\ graph' = Discarded(graph, reverse_graph, x[2])
        /\ zero_outdegree' =
               HeapAfter(zero_outdegree, x, graph, reverse_graph, sort_key)
        /\ sorted_events' = Append(sorted_events, x[2])
    /\ UNCHANGED <<pc, graph0, sort_key, reverse_graph>>
    /\ UNCHANGED <<sepVars, resVars>>

\* the heap is empty: the generator is exhausted
TopoFinish ==
    /\ pc = "topo_loop"
    /\ HeapExhausted(zero_outdegree)
    /\ pc' = "topo_done"
    /\ UNCHANGED <<topoVars, sepVars, resVars>>

----------------------------------------------------------------------------
(* resolve_events_with_store *)

\* (mutant) the early return is never taken
NoConflictNever(conflicted) == FALSE

\* "if not conflicted_state": the early return
NoConflict(conflicted) == conflicted = EmptyMap

\* the conflicted candidates chained with the auth difference
FullConflictedSet(conflicted, auth_diff) ==
    UNION Values(conflicted) \cup auth_diff

\* event_map.update(events), events being the store's answer for the ids of
\* the full conflicted set the memo does not hold
Fetched(em, ids) ==
    [e \in DOMAIN em \cup (ids \cap DOMAIN store) |->
        IF e \in DOMAIN em THEN em[e] ELSE store[e]]

\* the check "everything in the event map should be in the right room"
WrongRoom(em, room) == \E e \in DOMAIN em : em[e].room_id # room

PowerEvents(em, fcs) == {eid \in fcs : IsPowerEvent(em[eid])}

\* (mutant) every event of the full conflicted set is left over
LeftoverEventsAll(fcs, sorted_power_events) == fcs

\* the events the power sort did not return
LeftoverEvents(fcs, sorted_power_events) ==
    {ev_id \in fcs :
        \A i \in 1..Len(sorted_power_events) : sorted_power_events[i] # ev_id}

\* (mutant) the resolved state is returned without the final update
FinalStateNoUpdate(resolved, unconflicted) == resolved

\* resolved_state.update(unconflicted_state)
FinalState(resolved, unconflicted) ==
    [k \in DOMAIN resolved \cup DOMAIN unconflicted |->
        IF k \in DOMAIN unconflicted THEN unconflicted[k] ELSE resolved[k]]

\* an exception leaves the call
Fatal(em) ==
    /\ pc' = "fatal"
    /\ event_map' = em
    /\ UNCHANGED <<sepVars, topoVars, store, store_diff, crash,
                   refused, walk, event_map0,
                   full_conflicted_set, event_to_pl, candidates, idx,
                   resolved_state, auth_log, result>>

\* no conflicted state: the unconflicted state is the result
ReturnUnconflicted ==
    /\ pc = "seperated"
    /\ NoConflict(conflicted_state)
    /\ result' = unconflicted_state
    /\ pc' = "done"
    /\ UNCHANGED <<sepVars, topoVars, store, store_diff, crash,
                   refused, walk, event_map0,
                   event_map, full_conflicted_set, event_to_pl, candidates,
                   idx, resolved_state, auth_log>>

\* the auth difference, the full conflicted set, its fetch into the memo, the
\* room check and the filter to the events the memo holds
FetchEvents ==
    /\ pc = "seperated"
    /\ ~NoConflict(conflicted_state)
    /\ \E fcs \in {FullConflictedSet(conflicted_state, store_diff)} :
       \E em \in {Fetched(event_map, fcs)} :
           IF WrongRoom(em, RoomId) THEN Fatal(em)
           ELSE /\ event_map' = em
                /\ full_conflicted_set' = fcs \cap DOMAIN em
                /\ pc' = "power_sort"
                /\ UNCHANGED <<sepVars, topoVars, store, store_diff, crash,
                               refused, walk,
                               event_map0, event_to_pl, candidates, idx,
                               resolved_state, auth_log, result>>

\* _reverse_topological_power_sort of the power events, and the set-up of the
\* first _iterative_auth_checks; the power events, the graph's nodes and the
\* heap's ties come in any order
PowerSort ==
    /\ pc = "power_sort"
    /\ \E order \in Orderings(PowerEvents(event_map, full_conflicted_set)) :
       \E g \in {GraphLoop(order, 1, EmptyMap, event_map,
                           full_conflicted_set)} :
        IF g.err THEN Fatal(g.em)
        ELSE
        \E nodes \in Orderings(DOMAIN g.graph) :
        \E p \in {PowerLevelLoop(nodes, 1, g.em, EmptyMap)} :
            IF p.err THEN Fatal(p.em)
            ELSE
            \E key \in {[n \in DOMAIN g.graph |->
                            GetPowerOrder(p.em, p.event_to_pl, n)]} :
            \E sorted \in SortedLists(g.graph, key) :
                /\ graph' = g.graph
                /\ graph0' = g.graph
                /\ sort_key' = key
                /\ sorted_events' = sorted
                /\ event_to_pl' = p.event_to_pl
                /\ event_map' = p.em
                /\ candidates' = sorted
                /\ idx' = 1
                /\ resolved_state' = unconflicted_state
                /\ pc' = "auth_power"
                /\ UNCHANGED <<sepVars, reverse_graph, zero_outdegree,
                               store, store_diff, crash, refused, walk,
                               event_map0,
                               full_conflicted_set, auth_log, result>>

\* one iteration of _iterative_auth_checks, in either pass
AuthStep ==
    /\ pc \in {"auth_power", "auth_rest"}
    /\ idx <= Len(candidates)
    /\ \E r \in {IterativeAuthOne(event_map, resolved_state,
                                  candidates[idx])} :
        /\ auth_log' = Append(auth_log,
               [pass |-> pc, event_id |-> candidates[idx],
                before |-> resolved_state, auth_events |-> r.auth_events,
                outcome |-> r.outcome, after |-> r.resolved])
        /\ event_map' = r.em
        /\ resolved_state' = r.resolved
        /\ idx' = idx + 1
        /\ pc' = IF r.err THEN "fatal" ELSE pc
    /\ UNCHANGED <<sepVars, topoVars, store, store_diff, crash,
                   refused, walk, event_map0,
                   full_conflicted_set, event_to_pl, candidates, result>>

\* the first pass has returned: the leftover events, in any order, go through
\* _mainline_sort and into the second pass
SortLeftover ==
    /\ pc = "auth_power"
    /\ idx > Len(candidates)
    /\ \E order \in Orderings(LeftoverEvents(full_conflicted_set,
                                            sorted_events)) :
       \E m \in {MainlineSort(event_map, order,
                              Get(resolved_state, PowerLevelsKey))} :
        IF m.err THEN Fatal(m.em)
        ELSE /\ event_map' = m.em
             /\ candidates' = m.list
             /\ idx' = 1
             /\ pc' = "auth_rest"
             /\ UNCHANGED <<sepVars, topoVars, store, store_diff, crash,
                            refused, walk,
                            event_map0, full_conflicted_set, event_to_pl,
                            resolved_state, auth_log, result>>

\* the second pass has returned: the unconflicted state is written over the
\* resolved state, which is the result
ReturnResolved ==
    /\ pc = "auth_rest"
    /\ idx > Len(candidates)
    /\ result' = FinalState(resolved_state, unconflicted_state)
    /\ pc' = "done"
    /\ UNCHANGED <<sepVars, topoVars, store, store_diff, crash,
                   refused, walk, event_map0,
                   event_map, full_conflicted_set, event_to_pl, candidates,
                   idx, resolved_state, auth_log>>

----------------------------------------------------------------------------
(* Specifications *)

\* _seperate on its own
InitSep ==
    /\ pc = "start"
    /\ state_sets \in ListsUpTo(SepMaps, MaxSets)
    /\ unconflicted_state = EmptyMap
    /\ conflicted_state = EmptyMap
    /\ TopoIdle
    /\ ResIdle

NextSep == Seperate

SpecSep == InitSep /\ [][NextSep]_vars

\* lexicographical_topological_sort on its own
InitTopo ==
    /\ pc = "topo_start"
    /\ graph \in Graphs
    /\ graph0 = graph
    /\ sort_key \in [Nodes -> KeyValues]
    /\ reverse_graph = EmptyMap
    /\ zero_outdegree = EmptyBag
    /\ sorted_events = <<>>
    /\ SepIdle
    /\ ResIdle

NextTopo == TopoStart \/ TopoPop \/ TopoFinish

SpecTopo == InitTopo /\ [][NextTopo]_vars

\* resolve_events_with_store: the state sets, the store with at most one
\* thing wrong, the store's answer for the auth difference, and a memo that
\* is empty or holds every event of the store
Init ==
    /\ pc = "start"
    /\ state_sets \in ListsUpTo(ResMaps, MaxSets)
    /\ unconflicted_state = EmptyMap
    /\ conflicted_state = EmptyMap
    /\ TopoIdle
    /\ \E fault \in Faults :
        /\ store = Restrict(EventsUnder(fault),
                       IF fault[1] = "missing" THEN EventIds \ {fault[2]}
                       ELSE EventIds)
        /\ crash = IF fault[1] = "crash" THEN {fault[2]} ELSE {}
        /\ refused = IF fault[1] = "refused" THEN {fault[2]} ELSE {}
        /\ walk = NoWalk
    /\ store_diff \in Diffs(state_sets)
    /\ event_map0 \in {EmptyMap, store}
    /\ event_map = event_map0
    /\ RunIdle

Next ==
    \/ Seperate
    \/ ReturnUnconflicted
    \/ FetchEvents
    \/ PowerSort
    \/ AuthStep
    \/ SortLeftover
    \/ ReturnResolved

Spec == Init /\ [][Next]_vars

\* a room whose join rules (6) rest on power levels (3) the state sets need
\* not name, and whose topics are dated against their mainline depth: 7
\* rests on the older power levels and is the younger topic
SortRoom ==
    (1 :> Event(1, Create, "", UserA, 1, <<>>,
                [NoContent EXCEPT !.creator = {UserA}]))
    @@ (2 :> Event(2, PowerLevels, "", UserA, 2, <<1>>,
                [NoContent EXCEPT !.users = (UserA :> 100) @@ (UserB :> 50)]))
    @@ (3 :> Event(3, PowerLevels, "", UserB, 3, <<1, 2>>,
                [NoContent EXCEPT !.users = (UserA :> 0) @@ (UserB :> 50)]))
    @@ (6 :> Event(6, JoinRules, "", UserB, 6, <<3>>, NoContent))
    @@ (7 :> Event(7, Topic, "", UserA, 9, <<1, 2>>, NoContent))
    @@ (8 :> Event(8, Topic, "", UserB, 8, <<1, 3>>, NoContent))

\* a room whose power levels (9) and join rules (10) name each other as
\* auth events
CycleRoom ==
    (1 :> Event(1, Create, "", UserA, 1, <<>>,
                [NoContent EXCEPT !.creator = {UserA}]))
    @@ (9 :> Event(9, PowerLevels, "", UserA, 2, <<1, 10>>,
                [NoContent EXCEPT !.users = (UserA :> 100) @@ (UserB :> 50)]))
    @@ (10 :> Event(10, JoinRules, "", UserB, 3, <<1, 9>>, NoContent))

Rooms == {SortRoom, CycleRoom}

RoomKeys == {PowerLevelsKey, <<JoinRules, "">>, <<Topic, "">>}

\* the StateMaps of a room: each key names an event of that key
RoomMaps(room) ==
    {m \in UNION {[K -> DOMAIN room] : K \in SUBSET RoomKeys} :
        \A k \in DOMAIN m : EventKey(room[m[k]]) = k}

\* resolve_events_with_store on one of the rooms, with nothing wrong in the
\* store and an empty memo
InitRooms ==
    /\ pc = "start"
    /\ store \in Rooms
    /\ state_sets \in ListsUpTo(RoomMaps(store), MaxSets)
    /\ unconflicted_state = EmptyMap
    /\ conflicted_state = EmptyMap
    /\ TopoIdle
    /\ crash = {}
    /\ refused = {}
    /\ walk = NoWalk
    /\ store_diff \in Diffs(state_sets)
    /\ event_map0 = EmptyMap
    /\ event_map = event_map0
    /\ RunIdle

SpecRooms == InitRooms /\ [][Next]_vars

\* the events an event may name as auth events: two Create events of
\* different creators, three power levels events (one with users_default, one
\* with neither entry), an event of another type, and an event of another
\* room; 9 is the id of no event
AuthPool ==
    (1 :> Event(1, Create, "", UserA, 1, <<>>,
                [NoContent EXCEPT !.creator = {UserA}]))
    @@ (2 :> Event(2, Create, "", UserB, 2, <<>>,
                [NoContent EXCEPT !.creator = {UserB}]))
    @@ (3 :> Event(3, PowerLevels, "", UserA, 3, <<1>>,
                [NoContent EXCEPT !.users = (UserA :> 100) @@ (UserB :> 50)]))
    @@ (4 :> Event(4, PowerLevels, "", UserA, 4, <<1>>,
                [NoContent EXCEPT !.users = (UserA :> 10),
                                  !.users_default = {20}]))
    @@ (5 :> Event(5, PowerLevels, "", UserA, 5, <<1>>, NoContent))
    @@ (6 :> Event(6, Topic, "", UserA, 6, <<1>>, NoContent))
    @@ (8 :> [Event(8, Topic, "", UserA, 8, <<1>>, NoContent)
                 EXCEPT !.room_id = OtherRoom])

UnknownId == 9
Subject == 7

\* the lists of at most n ids of S
RECURSIVE AuthLists(_, _)
AuthLists(S, n) ==
    IF n = 0 THEN {<<>>}
    ELSE AuthLists(S, n - 1)
             \cup {Append(l, x) : l \in AuthLists(S, n - 1), x \in S}

\* _get_power_level_for_sender for one event: its sender, its auth_event_ids
\* and the memo (empty, or holding everything the store has)
InitLevel ==
    /\ pc = "level_start"
    /\ \E sender \in {UserA, UserB} :
       \E aids \in AuthLists(DOMAIN AuthPool \cup {UnknownId}, MaxAuth) :
           store = AuthPool
                       @@ (Subject :> Event(Subject, Topic, "", sender, 7,
                                            aids, NoContent))
    /\ event_map0 \in {EmptyMap, store}
    /\ event_map = event_map0
    /\ store_diff = {}
    /\ crash = {}
    /\ refused = {}
    /\ walk = NoWalk
    /\ SepIdle
    /\ TopoIdle
    /\ RunIdle

\* the call _get_power_level_for_sender(room_id, event_id, ...)
PowerLevelForSender ==
    /\ pc = "level_start"
    /\ \E r \in {GetPowerLevelForSender(event_map, Subject)} :
        /\ event_map' = r.em
        /\ event_to_pl' = IF r.err THEN event_to_pl
                          ELSE Put(event_to_pl, Subject, r.level)
        /\ pc' = IF r.err THEN "fatal" ELSE "level_done"
    /\ UNCHANGED <<sepVars, topoVars, store, store_diff, crash, refused, walk,
                   event_map0, full_conflicted_set, candidates, idx,
                   resolved_state, auth_log, result>>

NextLevel == PowerLevelForSender

SpecLevel == InitLevel /\ [][NextLevel]_vars

\* what sets the store's copy of one event apart from the copy a caller may
\* hold in the memo: the store has learnt that the event is rejected, or the
\* store has lost the event
MemoFaults == {<<"none", None>>} \cup ({"rejected", "missing"} \X EventIds)

\* resolve_events_with_store with a memo that is empty or holds the caller's
\* copy of that one event
InitMemo ==
    /\ pc = "start"
    /\ state_sets \in ListsUpTo(ResMaps, MaxSets)
    /\ unconflicted_state = EmptyMap
    /\ conflicted_state = EmptyMap
    /\ TopoIdle
    /\ \E fault \in MemoFaults :
        /\ store = Restrict(EventsUnder(fault),
                       IF fault[1] = "missing" THEN EventIds \ {fault[2]}
                       ELSE EventIds)
        /\ event_map0 \in {EmptyMap} \cup
               (IF fault[1] = "none" THEN {}
                ELSE {Restrict(BaseEvents, {fault[2]})})
    /\ crash = {}
    /\ refused = {}
    /\ walk = NoWalk
    /\ store_diff \in Diffs(state_sets)
    /\ event_map = event_map0
    /\ RunIdle

SpecMemo == InitMemo /\ [][Next]_vars

\* a room whose power levels events (11 and 12) name each other as auth
\* events
LoopRoom ==
    (1 :> Event(1, Create, "", UserA, 1, <<>>,
                [NoContent EXCEPT !.creator = {UserA}]))
    @@ (11 :> Event(11, PowerLevels, "", UserA, 2, <<1, 12>>,
                [NoContent EXCEPT !.users = (UserA :> 100)]))
    @@ (12 :> Event(12, PowerLevels, "", UserA, 3, <<1, 11>>,
                [NoContent EXCEPT !.users = (UserA :> 100)]))

\* the power levels events a store holds
PowerLevelsOf(room) ==
    {e \in DOMAIN room : EventKey(room[e]) = PowerLevelsKey}

\* the loops that walk along auth_event_ids, each with its arguments:
\* _add_event_and_auth_chain_to_graph (an event and an auth_diff), the
\* mainline walk of _mainline_sort (the resolved power levels event or None)
\* and _get_mainline_depth_for_event (an event and a mainline_map)
WalkInputs(room) ==
    {[loop |-> "graph", graph |-> EmptyMap, stack |-> <<e>>, auth_diff |-> D] :
        e \in DOMAIN room, D \in SUBSET DOMAIN room}
    \cup {[loop |-> "mainline", pl |-> pl, mainline |-> <<>>] :
             pl \in PowerLevelsOf(room) \cup {None}}
    \cup {[loop |-> "depth", event_id |-> e, room_id |-> room[e].room_id,
           mainline_map |-> mm, depth |-> None] :
             e \in DOMAIN room,
             mm \in {EmptyMap} \cup {(p :> 1) : p \in PowerLevelsOf(room)}}

\* one of the loops, on one of the rooms; the memo is empty, but for the
\* event _get_mainline_depth_for_event is handed
InitLoops ==
    /\ pc = "loop"
    /\ store \in {Restrict(BaseEvents, EventIds), SortRoom, LoopRoom}
    /\ walk \in WalkInputs(store)
    /\ store_diff = {}
    /\ crash = {}
    /\ refused = {}
    /\ event_map0 = EmptyMap
    /\ event_map = IF walk.loop = "depth"
                   THEN (walk.event_id :> store[walk.event_id])
                   ELSE EmptyMap
    /\ SepIdle
    /\ TopoIdle
    /\ RunIdle

loopFrame == <<sepVars, topoVars, store, store_diff, crash, refused,
               event_map0, full_conflicted_set, event_to_pl, candidates,
               idx, resolved_state, auth_log, result>>

\* one iteration of "while state" (lines 313-323)
GraphStep ==
    /\ pc = "loop"
    /\ walk.loop = "graph"
    /\ walk.stack # <<>>
    /\ \E next \in {GraphWalkStep(walk.graph, walk.stack, event_map,
                                  walk.auth_diff)} :
        /\ walk' = [walk EXCEPT !.graph = next.graph, !.stack = next.stack]
        /\ event_map' = next.em
        /\ pc' = IF next.err THEN "fatal" ELSE pc
    /\ UNCHANGED loopFrame

\* the stack is empty
GraphDone ==
    /\ pc = "loop"
    /\ walk.loop = "graph"
    /\ walk.stack = <<>>
    /\ pc' = "loop_done"
    /\ UNCHANGED <<loopFrame, walk, event_map>>

\* one iteration of "while pl" (lines 474-491); the mainline is kept to
\* MaxMainline events
MainlineWalkStep ==
    /\ pc = "loop"
    /\ walk.loop = "mainline"
    /\ walk.pl # None
    /\ Len(walk.mainline) < MaxMainline
    /\ \E next \in {MainlineStep(event_map, walk.pl, walk.mainline)} :
        /\ walk' = [walk EXCEPT !.pl = next.pl, !.mainline = next.mainline]
        /\ event_map' = next.em
        /\ pc' = IF next.err THEN "fatal" ELSE pc
    /\ UNCHANGED loopFrame

\* pl is None
MainlineDone ==
    /\ pc = "loop"
    /\ walk.loop = "mainline"
    /\ walk.pl = None
    /\ pc' = "loop_done"
    /\ UNCHANGED <<loopFrame, walk, event_map>>

\* one iteration of "while event" (lines 534-549), the return included
DepthStep ==
    /\ pc = "loop"
    /\ walk.loop = "depth"
    /\ \E next \in {MainlineDepthStep(event_map, walk.room_id,
                                      walk.event_id, walk.mainline_map)} :
        /\ walk' = [walk EXCEPT !.event_id = next.event_id,
                                !.depth = IF next.done /\ ~next.err
                                          THEN next.depth ELSE None]
        /\ event_map' = next.em
        /\ pc' = IF next.err THEN "fatal"
                 ELSE IF next.done THEN "loop_done" ELSE pc
    /\ UNCHANGED loopFrame

NextLoops ==
    \/ GraphStep
    \/ GraphDone
    \/ MainlineWalkStep
    \/ MainlineDone
    \/ DepthStep

\* the resolution on the rooms, the topological sort on every small graph and
\* the walks, each run to its end: the coroutine is resumed whenever it can
\* take a step (the store answers every query)
InitTerm == InitRooms \/ InitTopo \/ InitLoops

NextTerm == Next \/ NextTopo \/ NextLoops

SpecTerm == InitTerm /\ [][NextTerm]_vars /\ WF_vars(NextTerm)

----------------------------------------------------------------------------
(* Properties of resolve_events_with_store (Spec) *)

\* the event ids the state sets name
InputValues == UNION {Values(state_sets[i]) : i \in 1..Len(state_sets)}

\* the iterations of _iterative_auth_checks so far
Iterations == {auth_log[i] : i \in 1..Len(auth_log)}

\* C1: when resolve_events_with_store returns, every entry of the
\* unconflicted state is in the returned StateMap with the same event id,
\* also when a pass accepted another event for the same StateKey.
C1_UnconflictedKept ==
    pc = "done" =>
        \A k \in DOMAIN unconflicted_state :
            k \in DOMAIN result /\ result[k] = unconflicted_state[k]

\* a pass accepted an event whose StateKey is unconflicted with another event,
\* and the call returned
C1_Witness ==
    /\ pc = "done"
    /\ \E it \in Iterations :
        LET k == EventKey(event_map[it.event_id])
        IN  /\ it.outcome = "ok"
            /\ k \in DOMAIN unconflicted_state
            /\ unconflicted_state[k] # it.event_id
            /\ it.after[k] = it.event_id

AllSame ==
    /\ Len(state_sets) >= 1
    /\ \A i \in 1..Len(state_sets) : state_sets[i] = state_sets[1]

\* C2: with a single state set, or several that are all identical, the call
\* never leaves the path of the early return and never fails, and what it
\* returns is that state set, whatever the store and the memo hold.
C2_SameSetsReturned ==
    AllSame =>
        /\ pc \in {"start", "seperated", "done"}
        /\ pc = "done" => result = state_sets[1]

\* two identical, non-empty state sets are returned although the memo holds an
\* event of another room
C2_Witness ==
    /\ pc = "done"
    /\ Len(state_sets) = 2
    /\ AllSame
    /\ state_sets[1] # EmptyMap
    /\ result = state_sets[1]
    /\ WrongRoom(event_map0, RoomId)

\* one order for each unordered collection
FixedOrder(S) == CHOOSE order \in Orderings(S) : TRUE

Failed == [fatal |-> TRUE, result |-> EmptyMap]

\* the run on the same inputs in which every unordered collection is
\* iterated in its fixed order
Reference ==
    Local(SeperateLoop(FixedOrder(SeperateKeys(state_sets)), 1, state_sets,
                       EmptyMap, EmptyMap), LAMBDA sep :
    IF NoConflict(sep.conflicted)
    THEN [fatal |-> FALSE, result |-> sep.unconflicted]
    ELSE
    Local(Fetched(event_map0, FullConflictedSet(sep.conflicted, store_diff)),
          LAMBDA em :
    IF WrongRoom(em, RoomId) THEN Failed
    ELSE
    Local(FullConflictedSet(sep.conflicted, store_diff) \cap DOMAIN em,
          LAMBDA fcs :
    Local(GraphLoop(FixedOrder(PowerEvents(em, fcs)), 1, EmptyMap, em, fcs),
          LAMBDA g :
    IF g.err THEN Failed
    ELSE
    Local(PowerLevelLoop(FixedOrder(DOMAIN g.graph), 1, g.em, EmptyMap),
          LAMBDA p :
    IF p.err THEN Failed
    ELSE
    Local(CHOOSE sorted \in SortedLists(g.graph,
              [n \in DOMAIN g.graph |->
                  GetPowerOrder(p.em, p.event_to_pl, n)]) : TRUE,
          LAMBDA sorted :
    Local(IterativeAuthChecks(p.em, sep.unconflicted, sorted, 1),
          LAMBDA first :
    IF first.err THEN Failed
    ELSE
    Local(MainlineSort(first.em, FixedOrder(LeftoverEvents(fcs, sorted)),
                       Get(first.resolved, PowerLevelsKey)), LAMBDA m :
    IF m.err THEN Failed
    ELSE
    Local(IterativeAuthChecks(m.em, first.resolved, m.list, 1),
          LAMBDA second :
    IF second.err THEN Failed
    ELSE [fatal |-> FALSE,
          result |-> FinalState(second.resolved, sep.unconflicted)])))))))))

\* C3: whatever order the unordered collections are iterated in, a run
\* returns the StateMap the reference run on the same inputs returns, and
\* fails if the reference run fails.
C3_Deterministic ==
    /\ pc = "done" => Reference = [fatal |-> FALSE, result |-> result]
    /\ pc = "fatal" => Reference.fatal

\* a run returned in which two keys, two graph nodes and two leftover events
\* could each be iterated in two orders
C3_Witness ==
    /\ pc = "done"
    /\ Cardinality(DOMAIN conflicted_state) >= 2
    /\ Cardinality(DOMAIN graph0) >= 2
    /\ Cardinality(LeftoverEvents(full_conflicted_set, sorted_events)) >= 2
    /\ Cardinality(DOMAIN result) >= 2

\* C4: every event id the returned StateMap holds is a value of an input
\* state set or a member of the store's auth difference.
C4_OutputFromInputs ==
    pc = "done" => Values(result) \subseteq InputValues \cup store_diff

\* the run loaded an event that is neither an input value nor in the auth
\* difference, and returned an event that only the auth difference named
C4_Witness ==
    /\ pc = "done"
    /\ DOMAIN event_map \ (InputValues \cup store_diff) # {}
    /\ Values(result) \cap (store_diff \ InputValues) # {}

\* the auth context _iterative_auth_checks builds for an iteration, rebuilt
\* from the running state the iteration started with
ContextOf(it) ==
    AuthEventsFor(event_map, it.before, it.event_id).auth_events

\* C5: an iteration of _iterative_auth_checks changes the running state only
\* by writing its candidate under the candidate's StateKey, and only when the
\* authorization predicate passed for the candidate in the context built from
\* the running state as it was before the iteration; the running state holds
\* nothing but the base state and candidates so accepted.
C5_WrittenOnlyWhenAuthorized ==
    /\ \A it \in Iterations :
        LET event == event_map[it.event_id]
        IN  /\ it.outcome # "ok" => it.after = it.before
            /\ it.outcome = "ok" =>
                /\ it.after = Put(it.before, EventKey(event), it.event_id)
                /\ it.auth_events = ContextOf(it)
                /\ AuthCheck(event, [k \in DOMAIN it.auth_events |->
                                        event_map[it.auth_events[k]]]) = "ok"
    /\ \A k \in DOMAIN resolved_state :
        \/ Get(unconflicted_state, k) = resolved_state[k]
        \/ \E it \in Iterations :
            /\ it.outcome = "ok"
            /\ it.event_id = resolved_state[k]

\* a candidate was accepted against a running state an earlier candidate had
\* changed, and another candidate was refused
C5_Witness ==
    /\ pc = "done"
    /\ \E it \in Iterations :
        /\ it.outcome = "ok"
        /\ it.before # unconflicted_state
        /\ PowerLevelsKey \in DOMAIN it.auth_events \cap DOMAIN it.before
        /\ it.auth_events[PowerLevelsKey] = it.before[PowerLevelsKey]
    /\ \E it \in Iterations : it.outcome = "auth_error"

\* the events a resolution refers to: the input values, the auth difference,
\* and what their auth_event_ids reach
Referenced == AuthChain(InputValues \cup store_diff)

\* C6 as stated: when an event the resolution refers to is in another room,
\* the call does not return a StateMap.
C6_AnyWrongRoomIsFatal ==
    pc = "done" =>
        \A e \in Referenced \cap DOMAIN store : store[e].room_id = RoomId

\* C6 as amended: a call that found conflicted state and returns has no event
\* of another room in its memo, neither given nor loaded; a call that found
\* none returns with the memo as it was given.
C6_LoadedWrongRoomIsFatal ==
    /\ (pc = "done" /\ ~NoConflict(conflicted_state)) =>
           ~WrongRoom(event_map, RoomId)
    /\ (pc = "done" /\ NoConflict(conflicted_state)) =>
           event_map = event_map0

\* the loader fetched an event of another room after the check of the full
\* conflicted set, and the call failed
C6_Witness ==
    /\ pc = "fatal"
    /\ full_conflicted_set # {}
    /\ \E e \in DOMAIN event_map \ DOMAIN event_map0 :
        /\ event_map[e].room_id = OtherRoom
        /\ e \notin full_conflicted_set

----------------------------------------------------------------------------
(* Properties of _seperate (SpecSep) *)

SetsWith(key) == {i \in 1..Len(state_sets) : key \in DOMAIN state_sets[i]}

Agreed(key) ==
    /\ SetsWith(key) = 1..Len(state_sets)
    /\ \A i, j \in SetsWith(key) : state_sets[i][key] = state_sets[j][key]

\* C7: when _seperate returns, every StateKey of any input is in exactly one
\* of unconflicted and conflicted: in unconflicted, with the common event id,
\* iff every input holds the key with the same id; otherwise in conflicted with
\* exactly the ids the inputs holding the key give it (no null, not empty).
\* No other key is in either output, and one input gives empty conflicted.
C7_SeperatePartition ==
    pc = "seperated" =>
        /\ DOMAIN unconflicted_state \cup DOMAIN conflicted_state
               = SeperateKeys(state_sets)
        /\ DOMAIN unconflicted_state \cap DOMAIN conflicted_state = {}
        /\ \A key \in SeperateKeys(state_sets) :
            /\ key \in DOMAIN unconflicted_state <=> Agreed(key)
            /\ key \in DOMAIN unconflicted_state =>
                   \A i \in 1..Len(state_sets) :
                       unconflicted_state[key] = state_sets[i][key]
            /\ key \in DOMAIN conflicted_state =>
                /\ conflicted_state[key]
                       = {state_sets[i][key] : i \in SetsWith(key)}
                /\ None \notin conflicted_state[key]
                /\ conflicted_state[key] # {}
        /\ Len(state_sets) = 1 => conflicted_state = EmptyMap

\* _seperate has returned an agreed key, a key two inputs give different ids
\* to, and (in another run) a key one input lacks
C7_Witness ==
    /\ pc = "seperated"
    /\ Len(state_sets) = 2
    /\ DOMAIN unconflicted_state # {}
    /\ \E key \in DOMAIN conflicted_state :
        /\ SetsWith(key) # 1..Len(state_sets)
        /\ Cardinality(conflicted_state[key]) = 1

----------------------------------------------------------------------------
(* Properties of lexicographical_topological_sort (SpecTopo) *)

Targets(g) == UNION {g[n] : n \in DOMAIN g}

\* every edge target is itself a key
Closed(g) == Targets(g) \subseteq DOMAIN g

Successors(g, S) == UNION {g[n] : n \in S \cap DOMAIN g}

RECURSIVE ReachWithin(_, _, _)
ReachWithin(g, S, steps) ==
    IF steps = 0 THEN S
    ELSE ReachWithin(g, S \cup Successors(g, S), steps - 1)

\* there is a path of at least one edge from u to v
Path(g, u, v) ==
    v \in ReachWithin(g, Successors(g, {u}),
                      Cardinality(DOMAIN g \cup Targets(g)))

Acyclic(g) == \A n \in DOMAIN g : ~Path(g, n, n)

Position(n) == CHOOSE i \in 1..Len(sorted_events) : sorted_events[i] = n

Yielded(upto) == {sorted_events[i] : i \in 1..upto}

\* C8: on an acyclic graph whose edge targets are all keys, the finished sort
\* has yielded every node exactly once, and for every edge (u -> v) it has
\* yielded v before u.
C8_TopoOrder ==
    (pc = "topo_done" /\ Acyclic(graph0) /\ Closed(graph0)) =>
        /\ Yielded(Len(sorted_events)) = DOMAIN graph0
        /\ Len(sorted_events) = Cardinality(DOMAIN graph0)
        /\ \A u \in DOMAIN graph0 : \A v \in graph0[u] :
               Position(v) < Position(u)

\* the sort has finished on an acyclic graph of three nodes with a node that
\* has two out-edges
C8_Witness ==
    /\ pc = "topo_done"
    /\ Acyclic(graph0) /\ Closed(graph0)
    /\ Cardinality(DOMAIN graph0) = 3
    /\ \E u \in DOMAIN graph0 : Cardinality(graph0[u]) = 2
    /\ Len(sorted_events) = 3

\* C9 as stated: for u yielded before v there is no path v -> u.
C9_NoPathBackAsStated ==
    \A i, j \in 1..Len(sorted_events) :
        i < j => ~Path(graph0, sorted_events[j], sorted_events[i])

\* C9, amended: for u yielded before v there is no path u -> v in the input
\* graph (following out-edges from u to v); the paths run from the later node
\* to the earlier one.
C9_NoPathForward ==
    \A i, j \in 1..Len(sorted_events) :
        i < j => ~Path(graph0, sorted_events[i], sorted_events[j])

\* the sort has yielded two nodes joined by a path of two edges
C9_Witness ==
    /\ Len(sorted_events) = 3
    /\ sorted_events[2] \in graph0[sorted_events[3]]
    /\ sorted_events[1] \in graph0[sorted_events[2]]
    /\ sorted_events[1] \notin graph0[sorted_events[3]]

\* the nodes eligible once the first upto nodes are yielded
Eligible(upto) ==
    {n \in DOMAIN graph0 :
        n \notin Yielded(upto) /\ graph0[n] \subseteq Yielded(upto)}

\* C10: at every step the yielded node is eligible and has the smallest key
\* among the not-yet-yielded eligible nodes: no eligible node with a smaller
\* key is waiting.
C10_SmallestKeyFirst ==
    \A i \in 1..Len(sorted_events) :
        /\ sorted_events[i] \in Eligible(i - 1)
        /\ \A n \in Eligible(i - 1) :
               ~TupleLess(sort_key[n], sort_key[sorted_events[i]])

\* two nodes were eligible together and the one with the smaller key, though
\* the larger node id, was yielded first
C10_Witness ==
    /\ Len(sorted_events) >= 2
    /\ sorted_events[2] \in Eligible(0)
    /\ TupleLess(sort_key[sorted_events[1]], sort_key[sorted_events[2]])
    /\ sorted_events[1] > sorted_events[2]

----------------------------------------------------------------------------
(* Properties of the power sort inside resolve_events_with_store (SpecRooms) *)

\* the nodes the power sort returned
Emitted == {sorted_events[i] : i \in 1..Len(sorted_events)}

\* no edge of the graph orders a and b: neither is reachable from the other
Unordered(a, b) == ~Path(graph0, a, b) /\ ~Path(graph0, b, a)

\* C11 as stated: of two returned events that no auth-chain edge of the
\* graph orders, the one whose sender has the strictly higher power level
\* comes first.
C11_HigherPowerFirstAsStated ==
    \A a, b \in Emitted :
        (event_to_pl[a] > event_to_pl[b] /\ Unordered(a, b))
            => Position(a) < Position(b)

\* C11: an event b is returned before an event a of strictly higher sender
\* power only when a was not yet eligible: some edge target of a had not
\* been returned when b was.
C11_HigherPowerFirstWhenEligible ==
    \A a, b \in Emitted :
        (event_to_pl[a] > event_to_pl[b] /\ Position(b) < Position(a))
            => \E c \in graph0[a] : c \notin Yielded(Position(b) - 1)

\* two returned events that no edge orders, both eligible from the start,
\* and the one of higher sender power, though younger, is first
C11_Witness ==
    \E a, b \in Emitted :
        /\ Unordered(a, b)
        /\ graph0[a] = {} /\ graph0[b] = {}
        /\ event_to_pl[a] > event_to_pl[b]
        /\ store[a].origin_server_ts > store[b].origin_server_ts
        /\ Position(a) < Position(b)

----------------------------------------------------------------------------
(* Properties of the two passes of resolve_events_with_store (Spec) *)

\* the candidates whose check returned
Accepted == {it.event_id : it \in {i \in Iterations : i.outcome = "ok"}}

\* two state sets differ on the power levels: one names plA, the other plB,
\* plA is the older one with a sender of level 100, plB's sender has level 50
PowerLevelConflict(plA, plB) ==
    /\ Len(state_sets) = 2
    /\ PowerLevelsKey \in DOMAIN state_sets[1] \cap DOMAIN state_sets[2]
    /\ {state_sets[1][PowerLevelsKey], state_sets[2][PowerLevelsKey]}
           = {plA, plB}
    /\ {plA, plB} \subseteq DOMAIN event_to_pl
    /\ store[plA].origin_server_ts < store[plB].origin_server_ts
    /\ event_to_pl[plA] = 100
    /\ event_to_pl[plB] = 50

----------------------------------------------------------------------------
(* Properties of _mainline_sort inside resolve_events_with_store (SpecRooms) *)

\* an event as the memo or the store has it
Loaded(e) == IF e \in DOMAIN event_map THEN event_map[e] ELSE store[e]

\* the first auth event of e that can be loaded and is a power levels event
PowerLevelsPointer(e) ==
    LET aids == Loaded(e).auth_event_ids
        hits == {i \in 1..Len(aids) :
                    /\ aids[i] \in DOMAIN event_map \cup DOMAIN store
                    /\ EventKey(Loaded(aids[i])) = PowerLevelsKey}
    IN  IF hits = {} THEN None
        ELSE aids[CHOOSE i \in hits : \A j \in hits : i <= j]

\* e and the events reached from it along the pointers, e first
RECURSIVE ChainFrom(_)
ChainFrom(e) ==
    IF e = None THEN <<>> ELSE <<e>> \o ChainFrom(PowerLevelsPointer(e))

\* the mainline of the resolved power levels event, and a candidate's depth:
\* the oldest mainline event has depth 1
MainlineOf(pl) == {ChainFrom(pl)[i] : i \in 1..Len(ChainFrom(pl))}

DepthOf(pl, e) ==
    LET chain == ChainFrom(e)
        hits == {i \in 1..Len(chain) : chain[i] \in MainlineOf(pl)}
    IN  IF hits = {} THEN 0
        ELSE Len(ChainFrom(chain[CHOOSE i \in hits : \A j \in hits : i <= j]))

MainlineKey(pl, e) == <<DepthOf(pl, e), Loaded(e).origin_server_ts, e>>

\* _mainline_sort has just returned the candidates of the second pass
MainlineSorted == pc = "auth_rest" /\ idx = 1

\* C13: the list _mainline_sort returns is a permutation of the events it
\* was given (the full conflicted set without the power sort's events), in
\* ascending order of (depth, origin_server_ts, event_id), with the depth
\* counted along the first power levels auth events from the resolved power
\* levels event, the oldest at depth 1, and 0 when no mainline event is
\* reached.
C13_MainlineOrder ==
    MainlineSorted =>
        LET pl == Get(resolved_state, PowerLevelsKey)
        IN  /\ Len(candidates) = Cardinality(full_conflicted_set \ Emitted)
            /\ {candidates[i] : i \in 1..Len(candidates)}
                   = full_conflicted_set \ Emitted
            /\ \A i, j \in 1..Len(candidates) :
                   i < j => TupleLess(MainlineKey(pl, candidates[i]),
                                      MainlineKey(pl, candidates[j]))

\* the sort placed an event of mainline depth 1 before an older event of
\* mainline depth 2
C13_Witness ==
    /\ MainlineSorted
    /\ \E i, j \in 1..Len(candidates) :
        LET pl == Get(resolved_state, PowerLevelsKey)
        IN  /\ i < j
            /\ DepthOf(pl, candidates[i]) = 1
            /\ DepthOf(pl, candidates[j]) = 2
            /\ store[candidates[i]].origin_server_ts
                   > store[candidates[j]].origin_server_ts

\* C14: a candidate the check refuses with an AuthError leaves the running
\* state as it was, the next candidate of the pass is checked against that
\* state, the resolution fails after it only in _mainline_sort, after the
\* whole first pass, and a returned resolution has checked every candidate
\* of both passes; any other error of the check is the last iteration of a
\* resolution that fails.
C14_AuthErrorSkipsOthersAbort ==
    /\ \A i \in 1..Len(auth_log) :
        /\ auth_log[i].outcome = "auth_error" =>
            /\ auth_log[i].after = auth_log[i].before
            /\ (i < Len(auth_log) /\ auth_log[i + 1].pass = auth_log[i].pass)
                   => auth_log[i + 1].before = auth_log[i].before
            /\ (i = Len(auth_log) /\ pc = "fatal")
                   => (auth_log[i].pass = "auth_power"
                           /\ i = Len(sorted_events))
        /\ auth_log[i].outcome = "error" =>
               (i = Len(auth_log) /\ pc = "fatal")
    /\ pc = "done" =>
           Len(auth_log) = Len(sorted_events)
                               + Cardinality(full_conflicted_set \ Emitted)

\* the check refused a candidate with an AuthError and accepted the next
\* candidate of the same pass, and the resolution returned
C14_Witness ==
    /\ pc = "done"
    /\ \E i \in 1..(Len(auth_log) - 1) :
        /\ auth_log[i].outcome = "auth_error"
        /\ auth_log[i + 1].pass = auth_log[i].pass
        /\ auth_log[i + 1].outcome = "ok"
        /\ auth_log[i + 1].after # auth_log[i].before

\* the ids neither the caller's memo nor the store has
Unloadable(ids) == ids \ (DOMAIN event_map0 \cup DOMAIN store)

\* the auth_event_ids of candidate e
AuthIdsOf(e) ==
    {event_map[e].auth_event_ids[i] :
        i \in 1..Len(event_map[e].auth_event_ids)}

\* the iterations whose candidate lists an auth event id that cannot be
\* loaded, in a resolution where nothing else is wrong
MissingAuthIterations ==
    {i \in 1..Len(auth_log) :
        /\ Unloadable(AuthIdsOf(auth_log[i].event_id)) # {}
        /\ crash = {}}

\* the running state of iteration i names an event that cannot be loaded for
\* a key the candidate's check requires
StateNamesUnloadable(i) ==
    LET keys == AuthTypesForEvent(event_map[auth_log[i].event_id])
    IN  \E n \in 1..Len(keys) :
            /\ keys[n] \in DOMAIN auth_log[i].before
            /\ Unloadable({auth_log[i].before[keys[n]]}) # {}

\* C15 as stated: a candidate that lists an auth event id absent from memo
\* and store is still handed to the check, with a context without that
\* entry, and the resolution goes on.
C15_MissingNeverFatalAsStated ==
    \A i \in MissingAuthIterations :
        /\ auth_log[i].outcome # "error"
        /\ Unloadable(Values(auth_log[i].auth_events)) = {}

\* C15: such a candidate is handed to the check, with a context without
\* that entry, and the resolution goes on, unless the running state names an
\* event that cannot be loaded for a key the check requires: then the
\* iteration fails and the resolution with it.
C15_MissingOwnAuthNotFatal ==
    \A i \in MissingAuthIterations :
        IF StateNamesUnloadable(i)
        THEN auth_log[i].outcome = "error" /\ pc = "fatal"
        ELSE /\ auth_log[i].outcome # "error"
             /\ Unloadable(Values(auth_log[i].auth_events)) = {}

\* a candidate with an auth event id that cannot be loaded was checked and
\* accepted, and the resolution returned
C15_Witness ==
    /\ pc = "done"
    /\ \E i \in MissingAuthIterations :
        /\ ~StateNamesUnloadable(i)
        /\ auth_log[i].outcome = "ok"

\* the auth events of candidate e for key k that are loaded and not rejected
OwnAuthFor(e, k) ==
    {a \in AuthIdsOf(e) \cap DOMAIN event_map :
        EventKey(event_map[a]) = k /\ ~event_map[a].rejected}

\* the running state of iteration it names a rejected event for key k
StateNamesRejected(it, k) ==
    /\ k \in DOMAIN it.before
    /\ it.before[k] \in DOMAIN event_map
    /\ event_map[it.before[k]].rejected

\* C16: no auth context of an iteration holds a rejected event, and where
\* the running state names a rejected event for a key, the context has the
\* candidate's own auth event for that key that is not rejected, or no entry
\* when the candidate has none.
C16_NoRejectedInContext ==
    \A it \in Iterations :
        /\ \A k \in DOMAIN it.auth_events :
               ~event_map[it.auth_events[k]].rejected
        /\ it.outcome # "error" =>
               \A k \in {PowerLevelsKey, CreateKey} :
                   StateNamesRejected(it, k) =>
                       IF OwnAuthFor(it.event_id, k) = {}
                       THEN k \notin DOMAIN it.auth_events
                       ELSE /\ k \in DOMAIN it.auth_events
                            /\ it.auth_events[k] \in OwnAuthFor(it.event_id, k)

\* the running state named a rejected power levels event and the context
\* kept the candidate's own power levels event
C16_Witness ==
    \E it \in Iterations :
        /\ it.outcome # "error"
        /\ StateNamesRejected(it, PowerLevelsKey)
        /\ OwnAuthFor(it.event_id, PowerLevelsKey) # {}
        /\ it.auth_events[PowerLevelsKey] # it.before[PowerLevelsKey]

\* C17: every edge target of the graph built for the power sort is in the
\* auth difference the store returned.
C17_EdgeTargetsInAuthDifference == Targets(graph0) \subseteq store_diff

----------------------------------------------------------------------------
(* Properties of _get_power_level_for_sender (SpecLevel) *)

\* the positions of the subject's auth_event_ids that hold a loadable event
\* of StateKey key
AuthPositions(key) ==
    {i \in 1..Len(store[Subject].auth_event_ids) :
        /\ store[Subject].auth_event_ids[i] \in DOMAIN store
        /\ EventKey(store[store[Subject].auth_event_ids[i]]) = key}

\* the first auth event of the subject of StateKey key
FirstOf(key) ==
    store[store[Subject].auth_event_ids[
        CHOOSE i \in AuthPositions(key) : \A j \in AuthPositions(key) : i <= j]]

ExpectedLevel ==
    IF AuthPositions(PowerLevelsKey) # {}
    THEN LET content == FirstOf(PowerLevelsKey).content
         IN  IF store[Subject].sender \in DOMAIN content.users
             THEN content.users[store[Subject].sender]
             ELSE IF content.users_default # {}
             THEN CHOOSE level \in content.users_default : TRUE
             ELSE 0
    ELSE IF AuthPositions(CreateKey) = {} THEN 0
    ELSE IF FirstOf(CreateKey).content.creator = {store[Subject].sender}
    THEN 100
    ELSE 0

\* C18: when _get_power_level_for_sender returns, it returns users[sender]
\* of the first loadable power levels auth event, else that event's
\* users_default, else 0; without such an auth event 100 when the first
\* Create auth event has the sender as creator, and 0 otherwise; ids that
\* cannot be loaded are skipped. It raises only for an auth event of another
\* room.
C18_PowerLevelForSender ==
    /\ pc = "level_done" => event_to_pl[Subject] = ExpectedLevel
    /\ pc = "fatal" =>
           \E i \in 1..Len(store[Subject].auth_event_ids) :
               /\ store[Subject].auth_event_ids[i] \in DOMAIN store
               /\ store[store[Subject].auth_event_ids[i]].room_id = OtherRoom

\* the call skipped an id that cannot be loaded, took users_default of the
\* first power levels auth event, and left aside a later Create event whose
\* creator is the sender
C18_Witness ==
    /\ pc = "level_done"
    /\ Len(store[Subject].auth_event_ids) = 3
    /\ store[Subject].auth_event_ids[1] = UnknownId
    /\ AuthPositions(PowerLevelsKey) = {2}
    /\ AuthPositions(CreateKey) = {3}
    /\ FirstOf(CreateKey).content.creator = {store[Subject].sender}
    /\ store[Subject].sender \notin DOMAIN FirstOf(PowerLevelsKey).content.users
    /\ event_to_pl[Subject] = 20

----------------------------------------------------------------------------
(* Properties of the two candidate lists (SpecRooms) *)

NoDuplicates(list) == \A i, j \in 1..Len(list) : list[i] = list[j] => i = j

\* the events of the list of the second pass
Leftover == {candidates[i] : i \in 1..Len(candidates)}

\* the iterations that checked event e
ChecksOf(e) == {i \in 1..Len(auth_log) : auth_log[i].event_id = e}

\* C19: once the second pass is reached, the list of the first pass and the
\* list of the second pass have no duplicates, share no event and hold
\* together exactly the filtered full conflicted set; the nodes of the graph
\* the sort did not return (those on a cycle or behind one) are in the
\* second list; and a resolution that returns has checked every event of the
\* full conflicted set exactly once.
C19_EachCandidateOnce ==
    pc \in {"auth_rest", "done"} =>
        /\ NoDuplicates(sorted_events)
        /\ NoDuplicates(candidates)
        /\ Emitted \cap Leftover = {}
        /\ Emitted \cup Leftover = full_conflicted_set
        /\ (DOMAIN graph0 \ Emitted) \subseteq Leftover
        /\ pc = "done" =>
               /\ \A e \in full_conflicted_set : Cardinality(ChecksOf(e)) = 1
               /\ \A i \in 1..Len(auth_log) :
                      auth_log[i].event_id \in full_conflicted_set

\* the graph had a cycle: the sort returned one node and left two on the
\* cycle, which the second pass checked
C19_Witness ==
    /\ pc = "done"
    /\ Emitted # {}
    /\ \E a, b \in DOMAIN graph0 \ Emitted :
        /\ a # b
        /\ Path(graph0, a, b) /\ Path(graph0, b, a)
        /\ \E i, j \in 1..Len(auth_log) :
            /\ auth_log[i].pass = "auth_rest" /\ auth_log[i].event_id = a
            /\ auth_log[j].pass = "auth_rest" /\ auth_log[j].event_id = b

----------------------------------------------------------------------------
(* Properties of the event memo (SpecMemo) *)

\* C20: in every state of a resolution, the failed ones included, the memo
\* holds every entry of the caller's memo unchanged, every other entry is
\* the store's event of that id, and _get_event asks the store only for an
\* id the memo does not hold.
C20_MemoOnlyGrows ==
    /\ \A id \in DOMAIN event_map0 :
           id \in DOMAIN event_map /\ event_map[id] = event_map0[id]
    /\ \A id \in DOMAIN event_map \ DOMAIN event_map0 :
           id \in DOMAIN store /\ event_map[id] = store[id]
    /\ \A id \in EventIds, allow_none \in BOOLEAN :
           GetEvent(event_map, RoomId, id, allow_none).asked
               => id \notin DOMAIN event_map

\* the caller's memo held a copy of an event that is not the store's copy,
\* the resolution used the event and fetched others, and the copy is still
\* in the memo
C20_Witness ==
    /\ pc \in {"done", "fatal"}
    /\ auth_log # <<>>
    /\ DOMAIN event_map # DOMAIN event_map0
    /\ \E id \in DOMAIN event_map0 \cap DOMAIN store :
        /\ store[id] # event_map0[id]
        /\ id \in full_conflicted_set
        /\ event_map[id] = event_map0[id]

----------------------------------------------------------------------------
(* Termination (SpecTerm) *)

\* the auth_event_ids relation of the store
AuthGraph ==
    [e \in DOMAIN store |->
        {store[e].auth_event_ids[i] :
            i \in 1..Len(store[e].auth_event_ids)}]

AcyclicAuth == Acyclic(AuthGraph)

\* the resolution has returned or failed, the sort is exhausted, the walk
\* has left its loop
Finished == pc \in {"done", "fatal", "topo_done", "loop_done"}

\* C21: when the auth_event_ids relation is acyclic, the resolution and
\* each of its loops run on their own come to an end; the heap loop of the
\* topological sort comes to an end on every graph, cyclic ones included,
\* and never yields a node twice.
C21_Terminates ==
    /\ AcyclicAuth => <>Finished
    /\ [](pc \in {"topo_loop", "topo_done"} => NoDuplicates(sorted_events))

\* the resolution has returned on a room whose auth_event_ids relation is
\* acyclic, after a topological sort of at least two events and an
\* iterative auth pass
C21_Witness ==
    /\ pc = "done"
    /\ AcyclicAuth
    /\ Len(sorted_events) >= 2
    /\ auth_log # <<>>

====
